---- MODULE Spec2Model ----
(***************************************************************************)
(* ES256 compact JWT signing and EC key <-> JWK conversion, as implemented *)
(* by src/key.ts, src/test.ts and src/unnamed/part_000.                    *)
(*                                                                         *)
(* Strings are sequences of UTF-16 code units, byte arrays are sequences   *)
(* of 0..255.  The library calls of the source (js-base64, atob,           *)
(* @noble/curves, @noble/hashes, jose, jsonwebtoken) are modelled by the   *)
(* algorithm each runs.  P-256 and SHA-256 are scaled down: the curve is   *)
(* the prime-order curve y^2 = x^3 - 3x + 28 over F_283 (order 277), whose *)
(* coordinates and scalars take CURVE.bytes = 2 bytes where P-256 takes    *)
(* 32, and the digest is a 2-byte polynomial hash.  Every length of the    *)
(* source is written in terms of CURVE.bytes (32 -> CURVE.bytes,           *)
(* 33 -> CURVE.bytes + 1, 65 -> 2 * CURVE.bytes + 1).                      *)
(***************************************************************************)
EXTENDS Integers, Sequences, FiniteSets, TLC

VARIABLES script, codec, priv, pub, tok, selftest

vars == <<script, codec, priv, pub, tok, selftest>>

-----------------------------------------------------------------------------
(* Bounds of the model *)

\* longest byte array handed to the base64url codec
MaxLen == 3

\* longest string handed to a base64url decoder
MaxStr == 4

\* largest ECDSA nonce drawn by p256.sign (nonces are 1..MaxNonce)
MaxNonce == 3

\* longest text, in UTF-16 code units, handed to sha256
MaxUnits == 3

-----------------------------------------------------------------------------
(* Generic helpers *)

Max(a, b) == IF a > b THEN a ELSE b

Min(a, b) == IF a < b THEN a ELSE b

\* outcome of a call returning a byte array or a string
Ok(v) == [ok |-> TRUE, err |-> "none", val |-> v]

Throw(e) == [ok |-> FALSE, err |-> e, val |-> <<>>]

\* no call made yet
NoResult == [ok |-> FALSE, err |-> "not-called", val |-> <<>>]

RECURSIVE SeqsUpTo(_, _)
\* all sequences over S of length 0..n
SeqsUpTo(S, n) ==
  IF n = 0 THEN {<<>>}
  ELSE LET shorter == SeqsUpTo(S, n - 1)
       IN  shorter \cup {Append(s, e) : s \in {t \in shorter : Len(t) = n - 1}, e \in S}

\* Array.prototype.slice / TypedArray.prototype.slice(from, to), 0-based, end exclusive
Slice(s, from, to) == SubSeq(s, from + 1, Min(to, Len(s)))

-----------------------------------------------------------------------------
(* Base64 and base64url (js-base64, @sd-jwt/utils, atob) *)

\* the 64 characters of the standard alphabet: A-Z a-z 0-9 + /
B64Char(i) ==
  IF i < 26 THEN 65 + i
  ELSE IF i < 52 THEN 97 + (i - 26)
  ELSE IF i < 62 THEN 48 + (i - 52)
  ELSE IF i = 62 THEN 43
  ELSE 47

\* index of a character in the standard alphabet, -1 when it is not in it
B64Index(c) ==
  IF c >= 65 /\ c <= 90 THEN c - 65
  ELSE IF c >= 97 /\ c <= 122 THEN c - 97 + 26
  ELSE IF c >= 48 /\ c <= 57 THEN c - 48 + 52
  ELSE IF c = 43 THEN 62
  ELSE IF c = 47 THEN 63
  ELSE -1

IsB64Char(c) == B64Index(c) >= 0

\* ASCII whitespace of the forgiving-base64 decoder: TAB LF FF CR SPACE
IsAsciiWhitespace(c) == c \in {9, 10, 12, 13, 32}

RECURSIVE Btoa(_)
\* standard base64 with '=' padding (js-base64 _fromUint8Array)
Btoa(b) ==
  IF Len(b) = 0 THEN <<>>
  ELSE IF Len(b) = 1 THEN
    <<B64Char(b[1] \div 4), B64Char((b[1] % 4) * 16), 61, 61>>
  ELSE IF Len(b) = 2 THEN
    <<B64Char(b[1] \div 4), B64Char((b[1] % 4) * 16 + b[2] \div 16),
      B64Char((b[2] % 16) * 4), 61>>
  ELSE
    <<B64Char(b[1] \div 4), B64Char((b[1] % 4) * 16 + b[2] \div 16),
      B64Char((b[2] % 16) * 4 + b[3] \div 64), B64Char(b[3] % 64)>>
    \o Btoa(SubSeq(b, 4, Len(b)))

\* js-base64 _mkUriSafe: strip '=', then '+' -> '-' and '/' -> '_'
MkUriSafe(s) ==
  LET stripped == SelectSeq(s, LAMBDA c : c # 61)
  IN  [i \in 1..Len(stripped) |->
         IF stripped[i] = 43 THEN 45
         ELSE IF stripped[i] = 47 THEN 95
         ELSE stripped[i]]

\* @sd-jwt/utils uint8ArrayToBase64Url = Base64.fromUint8Array(input, true)
uint8ArrayToBase64Url(b) == MkUriSafe(Btoa(b))

\* the decoder without its two replace calls
ReplaceUrlCharsNone(s) == s

\* base64Url.replace(/-/g, "+").replace(/_/g, "/")
ReplaceUrlChars(s) ==
  [i \in 1..Len(s) |->
     IF s[i] = 45 THEN 43 ELSE IF s[i] = 95 THEN 47 ELSE s[i]]

RECURSIVE DecodeGroups(_)
\* base64 groups to bytes; a trailing group of 2 or 3 characters gives 1 or 2
\* bytes and its left-over bits are dropped, a trailing single character gives none
DecodeGroups(s) ==
  IF Len(s) < 2 THEN <<>>
  ELSE
    LET i1 == B64Index(s[1])
        i2 == B64Index(s[2])
        b1 == i1 * 4 + i2 \div 16
    IN  IF Len(s) = 2 THEN <<b1>>
        ELSE
          LET i3 == B64Index(s[3])
              b2 == (i2 % 16) * 16 + i3 \div 4
          IN  IF Len(s) = 3 THEN <<b1, b2>>
              ELSE <<b1, b2, (i3 % 4) * 64 + B64Index(s[4])>>
                   \o DecodeGroups(SubSeq(s, 5, Len(s)))

\* number of trailing '=' of s
RECURSIVE TrailingEquals(_)
TrailingEquals(s) ==
  IF Len(s) > 0 /\ s[Len(s)] = 61
  THEN 1 + TrailingEquals(SubSeq(s, 1, Len(s) - 1))
  ELSE 0

\* atob: the forgiving-base64 decode; an InvalidCharacterError is a DecodeError
atob(s) ==
  LET data == SelectSeq(s, LAMBDA c : ~IsAsciiWhitespace(c))
      eq == IF Len(data) % 4 = 0 THEN Min(TrailingEquals(data), 2) ELSE 0
      body == SubSeq(data, 1, Len(data) - eq)
  IN  IF Len(body) % 4 = 1 THEN Throw("DecodeError")
      ELSE IF \E i \in 1..Len(body) : ~IsB64Char(body[i]) THEN Throw("DecodeError")
      ELSE Ok(DecodeGroups(body))

\* the hand-written decoder: substitution, re-padding, atob, copy of the char codes
fromBase64Url(base64Url) ==
  LET base64 == ReplaceUrlChars(base64Url)
      pad == Len(base64) % 4
      padded == IF pad = 2 THEN base64 \o <<61, 61>>
                ELSE IF pad = 3 THEN base64 \o <<61>>
                ELSE base64
      raw == atob(padded)
  IN  IF raw.ok THEN Ok([i \in 1..Len(raw.val) |-> raw.val[i]]) ELSE raw

\* js-base64 _unURI: url characters back to '+' '/', then _tidyB64 drops every
\* character outside A-Za-z0-9+/
UnURI(s) == SelectSeq(ReplaceUrlChars(s), IsB64Char)

\* Base64.toUint8Array under Node: Buffer.from(_unURI(a), 'base64'); never throws
Base64toUint8Array(a) == Ok(DecodeGroups(UnURI(a)))

-----------------------------------------------------------------------------
(* Inputs of the codec *)

\* byte values whose encodings reach both ends of the alphabet, '-' and '_'
ByteSamples == {0, 65, 251, 255}

CodecBytes == SeqsUpTo(ByteSamples, MaxLen)

\* 'A' 'Q' '_' '=' ' ' '!'
CharSamples == {65, 81, 95, 61, 32, 33}

CodecStrings == SeqsUpTo(CharSamples, MaxStr)

NoCodec == [step |-> "none", bytes |-> <<>>, encoded |-> <<>>, decoder |-> "none",
            input |-> <<>>, decoded |-> NoResult]

Decode(decoder, s) ==
  IF decoder = "fromBase64Url" THEN fromBase64Url(s) ELSE Base64toUint8Array(s)

Decoders == {"fromBase64Url", "Base64.toUint8Array"}

-----------------------------------------------------------------------------
(* The curve (@noble/curves p256, scaled down) *)

\* p256.CURVE: field prime p, coefficients a = p - 3 and b, generator (Gx, Gy),
\* prime group order n < p, and the byte length of a field element and of a scalar
CURVE == [p |-> 283, a |-> 280, b |-> 28, n |-> 277, Gx |-> 5, Gy |-> 103, bytes |-> 2]

RECURSIVE PowMod(_, _, _)
PowMod(base, e, m) ==
  IF e = 0 THEN 1 % m
  ELSE LET half == PowMod(base, e \div 2, m)
           sq == (half * half) % m
       IN  IF e % 2 = 1 THEN (sq * (base % m)) % m ELSE sq

\* modular inverse of a non-zero residue of a prime modulus
InvMod(v, m) == PowMod(v % m, m - 2, m)

\* Fp.isValid: 0 <= num < p
FpIsValid(num) == num >= 0 /\ num < CURVE.p

\* Fp.mul, Fp.sqr: the product of the residues
FpMul(u, v) == ((u % CURVE.p) * (v % CURVE.p)) % CURVE.p

\* weierstrassEquation: x^3 + a x + b
WeierstrassEquation(x) ==
  (FpMul(FpMul(x, x), x) + FpMul(CURVE.a, x) + CURVE.b) % CURVE.p

\* isValidXY: y^2 = x^3 + a x + b
IsValidXY(x, y) == FpMul(y, y) = WeierstrassEquation(x)

\* Fp.sqrt for p = 3 mod 4: the candidate root y2^((p+1)/4)
FpSqrt(y2) == PowMod(y2, (CURVE.p + 1) \div 4, CURVE.p)

\* affine points; ZERO is the point at infinity
ZERO == [inf |-> TRUE, x |-> 0, y |-> 0]

Affine(x, y) == [inf |-> FALSE, x |-> x, y |-> y]

BASE == Affine(CURVE.Gx, CURVE.Gy)

PointDouble(P) ==
  IF P.inf \/ P.y = 0 THEN ZERO
  ELSE LET l == ((3 * P.x * P.x + CURVE.a) * InvMod(2 * P.y, CURVE.p)) % CURVE.p
           x3 == (l * l + 2 * (CURVE.p - P.x)) % CURVE.p
       IN  Affine(x3, (l * (P.x + CURVE.p - x3) + CURVE.p - P.y) % CURVE.p)

PointAdd(P, Q) ==
  IF P.inf THEN Q
  ELSE IF Q.inf THEN P
  ELSE IF P.x = Q.x THEN (IF P.y = Q.y THEN PointDouble(P) ELSE ZERO)
  ELSE LET l == ((Q.y + CURVE.p - P.y) * InvMod(Q.x + CURVE.p - P.x, CURVE.p)) % CURVE.p
           x3 == (l * l + 2 * CURVE.p - P.x - Q.x) % CURVE.p
       IN  Affine(x3, (l * (P.x + CURVE.p - x3) + CURVE.p - P.y) % CURVE.p)

RECURSIVE PointMultiply(_, _)
\* double-and-add
PointMultiply(P, k) ==
  IF k = 0 THEN ZERO
  ELSE LET half == PointDouble(PointMultiply(P, k \div 2))
       IN  IF k % 2 = 1 THEN PointAdd(half, P) ELSE half

-----------------------------------------------------------------------------
(* Numbers and bytes (@noble/curves/abstract/utils) *)

RECURSIVE bytesToNumberBE(_)
bytesToNumberBE(b) ==
  IF Len(b) = 0 THEN 0
  ELSE bytesToNumberBE(SubSeq(b, 1, Len(b) - 1)) * 256 + b[Len(b)]

RECURSIVE NumberToBytesMinimal(_)
NumberToBytesMinimal(num) ==
  IF num = 0 THEN <<>>
  ELSE Append(NumberToBytesMinimal(num \div 256), num % 256)

RECURSIVE Pow256(_)
Pow256(len) == IF len = 0 THEN 1 ELSE 256 * Pow256(len - 1)

RECURSIVE numberToBytesBE(_, _)
\* num.toString(16).padStart(len * 2, "0") as bytes: exactly len bytes when num fits
numberToBytesBE(num, len) ==
  IF len = 0 THEN NumberToBytesMinimal(num)
  ELSE IF num >= Pow256(len) THEN NumberToBytesMinimal(num)
  ELSE Append(numberToBytesBE(num \div 256, len - 1), num % 256)

\* key.ts bigIntTo32Bytes
bigIntTo32Bytes(num) ==
  LET bytes == numberToBytesBE(num, CURVE.bytes)
  IN  IF Len(bytes) > CURVE.bytes THEN Throw("IntegrityError")
      ELSE Ok([i \in 1..CURVE.bytes |->
                 IF i <= CURVE.bytes - Len(bytes) THEN 0
                 ELSE bytes[i - (CURVE.bytes - Len(bytes))]])

\* key.ts bytesToBigInt: BigInt("0x" + hex); BigInt("0x") is a SyntaxError
bytesToBigInt(bytes) ==
  IF Len(bytes) = 0 THEN [ok |-> FALSE, err |-> "SyntaxError", num |-> 0]
  ELSE [ok |-> TRUE, err |-> "none", num |-> bytesToNumberBE(bytes)]

-----------------------------------------------------------------------------
(* Points and private keys (@noble/curves weierstrass) *)

PointOk(P) == [ok |-> TRUE, err |-> "none", pt |-> P]

PointThrow(e) == [ok |-> FALSE, err |-> e, pt |-> ZERO]

\* Fp.toBytes
FpToBytes(num) == numberToBytesBE(num, CURVE.bytes)

\* Point.assertValidity: not ZERO, both coordinates field elements, on the curve
\* (the cofactor is 1, so every point of the curve is in the prime-order group)
AssertValidity(P) ==
  ~P.inf /\ FpIsValid(P.x) /\ FpIsValid(P.y) /\ IsValidXY(P.x, P.y)

\* Point.fromHex(bytesToHex(bytes)): compressed (02/03 || x) or uncompressed
\* (04 || x || y); every failure is an Error of the point parser: InvalidPoint
PointFromHex(bytes) ==
  LET L == CURVE.bytes
      head == bytes[1]
      tail == SubSeq(bytes, 2, Len(bytes))
  IN  IF Len(bytes) = L + 1 /\ head \in {2, 3} THEN
        LET x == bytesToNumberBE(tail)
            y2 == WeierstrassEquation(x)
            root == FpSqrt(y2)
            y == IF (head % 2 = 1) # (root % 2 = 1)
                 THEN (CURVE.p - root) % CURVE.p ELSE root
        IN  IF ~FpIsValid(x) THEN PointThrow("InvalidPoint")
            ELSE IF (root * root) % CURVE.p # y2 THEN PointThrow("InvalidPoint")
            ELSE IF ~AssertValidity(Affine(x, y)) THEN PointThrow("InvalidPoint")
            ELSE PointOk(Affine(x, y))
      ELSE IF Len(bytes) = 2 * L + 1 /\ head = 4 THEN
        LET x == bytesToNumberBE(SubSeq(tail, 1, L))
            y == bytesToNumberBE(SubSeq(tail, L + 1, 2 * L))
        IN  IF ~IsValidXY(x, y) THEN PointThrow("InvalidPoint")
            ELSE IF ~AssertValidity(Affine(x, y)) THEN PointThrow("InvalidPoint")
            ELSE PointOk(Affine(x, y))
      ELSE PointThrow("InvalidPoint")

\* new p256.Point(x, y, 1n): both coordinates field elements, y not zero
NewPoint(x, y) ==
  IF FpIsValid(x) /\ FpIsValid(y) /\ y # 0 THEN PointOk(Affine(x, y))
  ELSE PointThrow("InvalidPoint")

\* the prefix of a compressed point: 0x02 for an even y, 0x03 for an odd y
PrefixSwapped(y) == IF y % 2 = 1 THEN 2 ELSE 3

Prefix(y) == IF y % 2 = 1 THEN 3 ELSE 2

\* point.toRawBytes(isCompressed), which asserts validity first
ToRawBytes(P, isCompressed) ==
  IF ~AssertValidity(P) THEN Throw("InvalidPoint")
  ELSE IF isCompressed THEN Ok(<<Prefix(P.y)>> \o FpToBytes(P.x))
  ELSE Ok(<<4>> \o FpToBytes(P.x) \o FpToBytes(P.y))

\* normPrivateKeyToScalar with the range check reduced to a wrap modulo n
normPrivateKeyToScalarWrapping(key) ==
  LET num == bytesToNumberBE(key) % CURVE.n
  IN  IF Len(key) # CURVE.bytes
      THEN [ok |-> FALSE, err |-> "InvalidKeyLength", num |-> 0]
      ELSE IF num < 1
      THEN [ok |-> FALSE, err |-> "InvalidScalar", num |-> 0]
      ELSE [ok |-> TRUE, err |-> "none", num |-> num]

\* normPrivateKeyToScalar: exactly nByteLength bytes, and 1 <= num < n
normPrivateKeyToScalar(key) ==
  LET num == bytesToNumberBE(key)
  IN  IF Len(key) # CURVE.bytes
      THEN [ok |-> FALSE, err |-> "InvalidKeyLength", num |-> 0]
      ELSE IF num < 1 \/ num >= CURVE.n
      THEN [ok |-> FALSE, err |-> "InvalidScalar", num |-> 0]
      ELSE [ok |-> TRUE, err |-> "none", num |-> num]

\* p256.utils.isValidPrivateKey
isValidPrivateKey(key) == normPrivateKeyToScalar(key).ok

\* p256.getPublicKey(privateKey, isCompressed)
getPublicKey(privateKey, isCompressed) ==
  LET d == normPrivateKeyToScalar(privateKey)
  IN  IF ~d.ok THEN Throw(d.err)
      ELSE ToRawBytes(PointMultiply(BASE, d.num), isCompressed)

-----------------------------------------------------------------------------
(* JWK conversion (key.ts, part_000) *)

\* an EcPublicJwk / EcPrivateJwk: kty "EC" and crv "P-256" are fixed, x, y and d
\* are base64url strings; a public JWK has no d (the empty string here: "!jwk.d"
\* is true of both)
Jwk(x, y, d) == [x |-> x, y |-> y, d |-> d]

JwkOk(x, y, d) == [ok |-> TRUE, err |-> "none", jwk |-> Jwk(x, y, d)]

JwkThrow(e) == [ok |-> FALSE, err |-> e, jwk |-> Jwk(<<>>, <<>>, <<>>)]

NoJwk == JwkThrow("not-called")

\* privateKeyUint8ArrayToJwk with d taken from the public key bytes
privateKeyUint8ArrayToJwkWrongD(privateKeyBytes) ==
  IF Len(privateKeyBytes) # CURVE.bytes THEN JwkThrow("InvalidKeyLength")
  ELSE
    LET publicKeyBytes == getPublicKey(privateKeyBytes, FALSE)
    IN  IF ~publicKeyBytes.ok THEN JwkThrow(publicKeyBytes.err)
        ELSE JwkOk(
          uint8ArrayToBase64Url(Slice(publicKeyBytes.val, 1, CURVE.bytes + 1)),
          uint8ArrayToBase64Url(Slice(publicKeyBytes.val, CURVE.bytes + 1, 2 * CURVE.bytes + 1)),
          uint8ArrayToBase64Url(Slice(publicKeyBytes.val, 1, CURVE.bytes + 1)))

privateKeyUint8ArrayToJwk(privateKeyBytes) ==
  IF Len(privateKeyBytes) # CURVE.bytes THEN JwkThrow("InvalidKeyLength")
  ELSE
    LET publicKeyBytes == getPublicKey(privateKeyBytes, FALSE)
    IN  IF ~publicKeyBytes.ok THEN JwkThrow(publicKeyBytes.err)
        ELSE JwkOk(
          uint8ArrayToBase64Url(Slice(publicKeyBytes.val, 1, CURVE.bytes + 1)),
          uint8ArrayToBase64Url(Slice(publicKeyBytes.val, CURVE.bytes + 1, 2 * CURVE.bytes + 1)),
          uint8ArrayToBase64Url(privateKeyBytes))

privateKeyJwkToUint8Array(jwk) ==
  IF Len(jwk.d) = 0 THEN Throw("MissingField")
  ELSE
    LET privateKeyBytes == Base64toUint8Array(jwk.d)
    IN  IF ~privateKeyBytes.ok THEN privateKeyBytes
        ELSE IF Len(privateKeyBytes.val) # CURVE.bytes THEN Throw("InvalidKeyLength")
        ELSE privateKeyBytes

\* publicKeyUint8ArrayToJwk without the length check
publicKeyUint8ArrayToJwkNoLength(publicKeyBytes) ==
  LET point == PointFromHex(publicKeyBytes)
      x == bigIntTo32Bytes(point.pt.x)
      y == bigIntTo32Bytes(point.pt.y)
  IN  IF ~point.ok THEN JwkThrow(point.err)
      ELSE JwkOk(uint8ArrayToBase64Url(x.val), uint8ArrayToBase64Url(y.val), <<>>)

\* publicKeyUint8ArrayToJwk with the two coordinates exchanged
publicKeyUint8ArrayToJwkSwapped(publicKeyBytes) ==
  IF Len(publicKeyBytes) # CURVE.bytes + 1 /\ Len(publicKeyBytes) # 2 * CURVE.bytes + 1
  THEN JwkThrow("InvalidKeyLength")
  ELSE
    LET point == PointFromHex(publicKeyBytes)
        x == bigIntTo32Bytes(point.pt.y)
        y == bigIntTo32Bytes(point.pt.x)
    IN  IF ~point.ok THEN JwkThrow(point.err)
        ELSE JwkOk(uint8ArrayToBase64Url(x.val), uint8ArrayToBase64Url(y.val), <<>>)

\* publicKeyUint8ArrayToJwk (key.ts and part_000 hold the same function)
publicKeyUint8ArrayToJwk(publicKeyBytes) ==
  IF Len(publicKeyBytes) # CURVE.bytes + 1 /\ Len(publicKeyBytes) # 2 * CURVE.bytes + 1
  THEN JwkThrow("InvalidKeyLength")
  ELSE
    LET point == PointFromHex(publicKeyBytes)
        x == bigIntTo32Bytes(point.pt.x)
        y == bigIntTo32Bytes(point.pt.y)
    IN  IF ~point.ok THEN JwkThrow(point.err)
        ELSE IF ~x.ok THEN JwkThrow(x.err)
        ELSE IF ~y.ok THEN JwkThrow(y.err)
        ELSE JwkOk(uint8ArrayToBase64Url(x.val), uint8ArrayToBase64Url(y.val), <<>>)

\* key.ts: the coordinates as integers, the Point constructor, assertValidity
publicKeyJwkToUint8Array_key(jwk, compressed) ==
  LET x == Base64toUint8Array(jwk.x)
      y == Base64toUint8Array(jwk.y)
      xn == bytesToBigInt(x.val)
      yn == bytesToBigInt(y.val)
      point == NewPoint(xn.num, yn.num)
  IN  IF ~xn.ok THEN Throw(xn.err)
      ELSE IF ~yn.ok THEN Throw(yn.err)
      ELSE IF ~point.ok THEN Throw(point.err)
      ELSE IF ~AssertValidity(point.pt) THEN Throw("InvalidPoint")
      ELSE ToRawBytes(point.pt, compressed)

\* TypedArray.prototype.set(source, offset) on a buffer; a source that does not
\* fit is a RangeError
SetAt(buffer, source, offset) ==
  IF offset + Len(source) > Len(buffer) THEN Throw("RangeError")
  ELSE Ok([i \in 1..Len(buffer) |->
             IF i > offset /\ i <= offset + Len(source) THEN source[i - offset]
             ELSE buffer[i]])

\* part_000: the coordinates copied into a 04-prefixed buffer, Point.fromHex
publicKeyJwkToUint8Array_part(jwk, compressed) ==
  LET xBytes == Base64toUint8Array(jwk.x)
      yBytes == Base64toUint8Array(jwk.y)
      fresh == [i \in 1..(2 * CURVE.bytes + 1) |-> IF i = 1 THEN 4 ELSE 0]
      withX == SetAt(fresh, xBytes.val, 1)
      withY == SetAt(withX.val, yBytes.val, CURVE.bytes + 1)
      point == PointFromHex(withY.val)
  IN  IF ~withX.ok THEN withX
      ELSE IF ~withY.ok THEN withY
      ELSE IF ~point.ok THEN Throw(point.err)
      ELSE ToRawBytes(point.pt, compressed)

Impls == {"key.ts", "part_000"}

publicKeyJwkToUint8Array(impl, jwk, compressed) ==
  IF impl = "key.ts" THEN publicKeyJwkToUint8Array_key(jwk, compressed)
  ELSE publicKeyJwkToUint8Array_part(jwk, compressed)

-----------------------------------------------------------------------------
(* Digest (part_000 toUTF8Array and sha256, @noble/hashes) *)

RECURSIVE BitOr(_, _)
BitOr(a, b) ==
  IF a = 0 THEN b
  ELSE IF b = 0 THEN a
  ELSE 2 * BitOr(a \div 2, b \div 2) + Max(a % 2, b % 2)

RECURSIVE Pow2(_)
Pow2(k) == IF k = 0 THEN 1 ELSE 2 * Pow2(k - 1)

\* x >> k and x & (2^k - 1)
Shr(x, k) == x \div Pow2(k)

LowBits(x, k) == x % Pow2(k)

\* str.charCodeAt(i), 0-based; NaN past the end, and NaN & mask is 0
CharCodeAtMasked(str, i, k) == IF i < Len(str) THEN LowBits(str[i + 1], k) ELSE 0

RECURSIVE Utf8From(_, _)
\* the loop of toUTF8Array from index i on
Utf8From(str, i) ==
  IF i >= Len(str) THEN <<>>
  ELSE
    LET charcode == str[i + 1]
    IN  IF charcode < 128 THEN <<charcode>> \o Utf8From(str, i + 1)
        ELSE IF charcode < 2048 THEN
          <<BitOr(192, Shr(charcode, 6)), BitOr(128, LowBits(charcode, 6))>>
          \o Utf8From(str, i + 1)
        ELSE IF charcode < 55296 \/ charcode >= 57344 THEN
          <<BitOr(224, Shr(charcode, 12)),
            BitOr(128, LowBits(Shr(charcode, 6), 6)),
            BitOr(128, LowBits(charcode, 6))>>
          \o Utf8From(str, i + 1)
        ELSE
          LET pair == 65536 + BitOr(LowBits(charcode, 10) * 1024,
                                    CharCodeAtMasked(str, i + 1, 10))
          IN  <<BitOr(240, Shr(pair, 18)),
                BitOr(128, LowBits(Shr(pair, 12), 6)),
                BitOr(128, LowBits(Shr(pair, 6), 6)),
                BitOr(128, LowBits(pair, 6))>>
              \o Utf8From(str, i + 2)

\* toUTF8Array: new Uint8Array(utf8) keeps the low 8 bits of every element
toUTF8Array(str) ==
  LET utf8 == Utf8From(str, 0)
  IN  [i \in 1..Len(utf8) |-> utf8[i] % 256]

\* sha256 of @noble/hashes, scaled to a CURVE.bytes-byte digest: a polynomial
\* hash of the whole message modulo the prime 46337, evaluated by halves
RECURSIVE HashState(_, _, _)
HashState(bytes, lo, hi) ==
  IF lo > hi THEN 0
  ELSE IF lo = hi THEN bytes[lo] + 1
  ELSE LET mid == (lo + hi) \div 2
       IN  (HashState(bytes, lo, mid) * PowMod(263, hi - mid, 46337)
            + HashState(bytes, mid + 1, hi)) % 46337

nobleSha256(bytes) ==
  FpToBytes((HashState(bytes, 1, Len(bytes)) * 25173 + 27145 + Len(bytes))
            % 46337)

\* sha256(text) of part_000 / @sd-jwt/hash
sha256(text) == nobleSha256(toUTF8Array(text))

-----------------------------------------------------------------------------
(* ECDSA (@noble/curves weierstrass sign / verify, lowS = false for p256) *)

RECURSIVE BitLen(_)
BitLen(num) == IF num = 0 THEN 0 ELSE 1 + BitLen(num \div 2)

\* bits2int: the leftmost nBitLength bits of the digest
bits2int(bytes) ==
  LET num == bytesToNumberBE(bytes)
      delta == Len(bytes) * 8 - BitLen(CURVE.n)
  IN  IF delta > 0 THEN Shr(num, delta) ELSE num

bits2int_modN(bytes) == bits2int(bytes) % CURVE.n

NoSig == [ok |-> FALSE, err |-> "none", r |-> 0, s |-> 0]

\* k2sig with the private scalar left out of s
k2sigNoKey(k, m, d) ==
  IF k < 1 \/ k >= CURVE.n THEN NoSig
  ELSE
    LET q == PointMultiply(BASE, k)
        r == q.x % CURVE.n
        s == (InvMod(k, CURVE.n) * ((m + r) % CURVE.n)) % CURVE.n
    IN  IF r = 0 \/ s = 0 THEN NoSig
        ELSE [ok |-> TRUE, err |-> "none", r |-> r, s |-> s]

\* k2sig: the signature of digest m under scalar d with nonce k; not ok when the
\* nonce is rejected (k out of range, r = 0 or s = 0) and the next one is drawn
k2sig(k, m, d) ==
  IF k < 1 \/ k >= CURVE.n THEN NoSig
  ELSE
    LET q == PointMultiply(BASE, k)
        r == q.x % CURVE.n
        s == (InvMod(k, CURVE.n) * ((m + r * d) % CURVE.n)) % CURVE.n
    IN  IF r = 0 \/ s = 0 THEN NoSig
        ELSE [ok |-> TRUE, err |-> "none", r |-> r, s |-> s]

\* p256.sign(msgHash, privateKey) with the nonce the DRBG settles on
p256sign(msgHash, privateKey, k) ==
  LET d == normPrivateKeyToScalar(privateKey)
  IN  IF ~d.ok THEN [ok |-> FALSE, err |-> d.err, r |-> 0, s |-> 0]
      ELSE k2sig(k, bits2int_modN(msgHash), d.num)

\* signature.toCompactRawBytes(): r || s, each left-padded to nByteLength
toCompactRawBytes(sig) == FpToBytes(sig.r) \o FpToBytes(sig.s)

\* ECDSA verification of a compact signature over a digest
EcdsaVerify(sigBytes, msgHash, Q) ==
  /\ Len(sigBytes) = 2 * CURVE.bytes
  /\ LET r == bytesToNumberBE(SubSeq(sigBytes, 1, CURVE.bytes))
         s == bytesToNumberBE(SubSeq(sigBytes, CURVE.bytes + 1, 2 * CURVE.bytes))
     IN  /\ r >= 1 /\ r < CURVE.n
         /\ s >= 1 /\ s < CURVE.n
         /\ LET h == bits2int_modN(msgHash)
                is == InvMod(s, CURVE.n)
                u1 == (h * is) % CURVE.n
                u2 == (r * is) % CURVE.n
                R == PointAdd(PointMultiply(BASE, u1), PointMultiply(Q, u2))
            IN  ~R.inf /\ R.x % CURVE.n = r

\* p256.verify(sig, msg, pub): false, never an exception, for a bad signature or key
p256verify(sigBytes, msgHash, publicKey) ==
  LET P == PointFromHex(publicKey)
  IN  Len(publicKey) > 0 /\ P.ok /\ EcdsaVerify(sigBytes, msgHash, P.pt)

-----------------------------------------------------------------------------
(* Compact JWT (test.ts signJwt, jose jwtVerify, jsonwebtoken verify) *)

\* base64urlEncode(jsonString) = Base64.encodeURI: base64url of the UTF-8 bytes
base64urlEncode(str) == MkUriSafe(Btoa(toUTF8Array(str)))

\* objectToBase64Url(data), data given by its JSON.stringify text
objectToBase64Url(jsonString) == base64urlEncode(jsonString)

\* the two copies of signJwt differ in the decoder of the "d" parameter (and the
\* first derives the public key before it signs)
Variants == {"Base64.toUint8Array", "fromBase64Url"}

\* signJwt with the signature bytes not padded to nByteLength each
signJwtUnpadded(variant, privateKeyJwkD, header, payload, k) ==
  LET signingInput == objectToBase64Url(header) \o <<46>> \o objectToBase64Url(payload)
      pkey == Decode(variant, privateKeyJwkD)
      signature == p256sign(sha256(signingInput), pkey.val, k)
  IN  IF ~pkey.ok THEN Throw(pkey.err)
      ELSE IF ~signature.ok THEN Throw(signature.err)
      ELSE Ok(signingInput \o <<46>> \o uint8ArrayToBase64Url(
                NumberToBytesMinimal(signature.r) \o NumberToBytesMinimal(signature.s)))

\* signJwt(privateKeyJwkD, header, payload); err "none" and not ok: nonce k rejected
signJwt(variant, privateKeyJwkD, header, payload, k) ==
  LET encodedHeader == objectToBase64Url(header)
      encodedPayload == objectToBase64Url(payload)
      pkey == Decode(variant, privateKeyJwkD)
      publicKey == IF variant = "fromBase64Url" THEN Ok(<<>>)
                   ELSE getPublicKey(pkey.val, FALSE)
      signingInput == encodedHeader \o <<46>> \o encodedPayload
      signingInputBytes == sha256(signingInput)
      signature == p256sign(signingInputBytes, pkey.val, k)
  IN  IF ~pkey.ok THEN Throw(pkey.err)
      ELSE IF ~publicKey.ok THEN Throw(publicKey.err)
      ELSE IF ~signature.ok THEN Throw(signature.err)
      ELSE Ok(signingInput \o <<46>> \o uint8ArrayToBase64Url(toCompactRawBytes(signature)))

RECURSIVE Split(_, _)
\* str.split(sep) for a one-character separator
Split(str, sep) ==
  IF \A i \in 1..Len(str) : str[i] # sep THEN <<str>>
  ELSE LET at == CHOOSE i \in 1..Len(str) :
                   str[i] = sep /\ \A j \in 1..(i - 1) : str[j] # sep
       IN  <<SubSeq(str, 1, at - 1)>> \o Split(SubSeq(str, at + 1, Len(str)), sep)

\* the outcome of a verification call
Verdict(by, threw, returned, logged) ==
  [by |-> by, threw |-> threw, returned |-> returned, logged |-> logged]

NoVerdict == Verdict("none", "none", "none", "none")

\* the ES256 check of a compact JWS against a public JWK, as both JWT libraries
\* run it: "ok", or why not
Es256Check(jwt, jwk) ==
  LET parts == Split(jwt, 46)
      x == Base64toUint8Array(jwk.x).val
      y == Base64toUint8Array(jwk.y).val
      Q == Affine(bytesToNumberBE(x), bytesToNumberBE(y))
      data == toUTF8Array(parts[1] \o <<46>> \o parts[2])
      signature == Base64toUint8Array(parts[3]).val
  IN  IF Len(parts) # 3 THEN "MalformedJwt"
      ELSE IF Len(x) # CURVE.bytes \/ Len(y) # CURVE.bytes \/ ~AssertValidity(Q)
      THEN "InvalidPoint"
      ELSE IF ~EcdsaVerify(signature, nobleSha256(data), Q) THEN "SignatureInvalid"
      ELSE "ok"

\* jose jwtVerify(jwt, pubJwk, {algorithms: ["ES256"]}): resolves with the payload,
\* or rejects; a signature that does not verify is JWSSignatureVerificationFailed
jwtVerify(jwt, jwk) ==
  LET check == Es256Check(jwt, jwk)
  IN  IF check = "ok" THEN Verdict("jwtVerify", "none", "payload", "none")
      ELSE IF check = "SignatureInvalid"
      THEN Verdict("jwtVerify", "JWSSignatureVerificationFailed", "none", "none")
      ELSE Verdict("jwtVerify", check, "none", "none")

\* verifyJwt of test.ts: jsonwebtoken's verify throws for a signature that does not
\* verify, the catch logs the error, and the function returns undefined either way
\* (taken over any token and key; the exp and iat of the payload are left out)
verifyJwt(jwt, jwk) ==
  LET check == Es256Check(jwt, jwk)
  IN  IF check = "ok" THEN Verdict("verifyJwt", "none", "undefined", "decoded")
      ELSE IF check = "SignatureInvalid"
      THEN Verdict("verifyJwt", "none", "undefined", "JsonWebTokenError")
      ELSE Verdict("verifyJwt", "none", "undefined", check)

-----------------------------------------------------------------------------
(* Inputs *)

\* private keys: 1, 62, 128 and n - 1 are valid scalars; 0, n, n + 1 and 65535
\* are out of range; the rest have the wrong length
ValidPrivateKeys == {<<0, 1>>, <<0, 62>>, <<0, 128>>, <<1, 20>>}

OutOfRangePrivateKeys == {<<0, 0>>, <<1, 21>>, <<1, 22>>, <<255, 255>>}

PrivateKeyInputs ==
  ValidPrivateKeys \cup OutOfRangePrivateKeys \cup {<<>>, <<7>>, <<0, 0, 7>>}

\* every point of the curve but ZERO
CurvePoints == {PointMultiply(BASE, k) : k \in 1..(CURVE.n - 1)}

\* every valid public key, compressed and uncompressed
ValidPublicKeys ==
  {ToRawBytes(P, c).val : P \in CurvePoints, c \in BOOLEAN}

\* wrong lengths (among them 2 * CURVE.bytes, a point without its prefix), wrong
\* prefixes, coordinates off the curve or not below p
InvalidPublicKeys ==
  { <<>>, <<4>>, <<0, 5, 0, 103>>, <<4, 0, 5, 0, 103, 0>>,
    <<5, 0, 5, 0, 103>>, <<2, 0, 5, 0, 103>>, <<0, 0, 5, 0, 103>>, <<4, 0, 5>>,
    <<4, 0, 5, 0, 104>>, <<4, 1, 32, 0, 103>>, <<4, 0, 5, 1, 130>>,
    <<2, 0, 1>>, <<3, 1, 32>>, <<2, 255, 255>> }

PublicKeyInputs == ValidPublicKeys \cup InvalidPublicKeys

\* "x" and "y" fields a caller may hand in: CURVE.bytes bytes (on and off the
\* curve, below p and not), fewer, more, none, and characters outside the alphabet
CoordBytes ==
  { <<0, 5>>, <<0, 103>>, <<0, 180>>, <<0, 0>>, <<0, 157>>, <<1, 0>>, <<0, 50>>,
    <<1, 32>>, <<255, 255>>, <<5>>, <<103>>, <<0, 0, 5>>, <<0, 0, 103>>, <<>>,
    <<0, 0, 0, 0, 5>> }

CoordStrings ==
  {uint8ArrayToBase64Url(b) : b \in CoordBytes} \cup {<<65, 33, 65, 85>>}

\* "d" parameters: the encodings of the private key inputs, and malformed ones
\* ("AD4!", "AD4A ", "AD4AA", "A")
DStrings ==
  {uint8ArrayToBase64Url(b) : b \in PrivateKeyInputs}
  \cup {<<65, 68, 52, 33>>, <<65, 68, 52, 65, 32>>, <<65, 68, 52, 65, 65>>, <<65>>}

\* JSON.stringify(header): {"alg":"ES256"}
Headers == {<<123, 34, 97, 108, 103, 34, 58, 34, 69, 83, 50, 53, 54, 34, 125>>}

\* JSON.stringify(payload): {} and {"a":1}
Payloads == {<<123, 125>>, <<123, 34, 97, 34, 58, 49, 125>>}

\* the nonces the DRBG may settle on; 32 gives r = 0 and is always rejected
Nonces == (1..MaxNonce) \cup {32, CURVE.n - 1}

-----------------------------------------------------------------------------
(* State: the script being run and the values it holds *)

NoPriv == [step |-> "none", bytes |-> <<>>, jwk |-> NoJwk, restored |-> NoResult]

NoPub == [step |-> "none", bytes |-> <<>>, jwk |-> NoJwk, impl |-> "none",
          compressed |-> FALSE, restored |-> NoResult]

NoTok == [step |-> "none", variant |-> "none", d |-> <<>>, header |-> <<>>,
          payload |-> <<>>, jwt |-> NoResult, tamper |-> "none", presented |-> <<>>,
          pubJwk |-> Jwk(<<>>, <<>>, <<>>), verdict |-> NoVerdict]

NoSelftest == [step |-> "none", priv |-> <<>>, pub |-> <<>>, msg |-> <<>>,
               sig |-> <<>>, isValid |-> FALSE]

Init ==
  /\ script = "idle"
  /\ codec = NoCodec
  /\ priv = NoPriv
  /\ pub = NoPub
  /\ tok = NoTok
  /\ selftest = NoSelftest

\* a script starts in a fresh process: nothing of another script is there
Start(name) ==
  /\ script' = name
  /\ IF name = "codec" THEN TRUE ELSE UNCHANGED codec
  /\ IF name = "private" THEN TRUE ELSE UNCHANGED priv
  /\ IF name = "public" THEN TRUE ELSE UNCHANGED pub
  /\ IF name = "jwt" THEN TRUE ELSE UNCHANGED tok
  /\ IF name = "selftest" THEN TRUE ELSE UNCHANGED selftest

-----------------------------------------------------------------------------
(* Codec calls *)

\* uint8ArrayToBase64Url(bytes)
Encode ==
  /\ script = "idle"
  /\ \E b \in CodecBytes :
       /\ codec' = [NoCodec EXCEPT !.step = "encoded", !.bytes = b,
                                   !.encoded = uint8ArrayToBase64Url(b)]
       /\ Start("codec")

\* the encoded string handed to one of the two decoders
DecodeEncoded ==
  /\ script = "codec" /\ codec.step = "encoded"
  /\ \E dec \in Decoders :
       codec' = [codec EXCEPT !.step = "roundtrip", !.decoder = dec,
                              !.input = codec.encoded,
                              !.decoded = Decode(dec, codec.encoded)]
  /\ UNCHANGED <<script, priv, pub, tok, selftest>>

\* any string handed to one of the two decoders
DecodeString ==
  /\ script = "idle"
  /\ \E dec \in Decoders, str \in CodecStrings :
       /\ codec' = [NoCodec EXCEPT !.step = "decoded", !.decoder = dec, !.input = str,
                                   !.decoded = Decode(dec, str)]
       /\ Start("codec")

-----------------------------------------------------------------------------
(* Private key calls *)

PrivateToJwk ==
  /\ script = "idle"
  /\ \E bytes \in PrivateKeyInputs :
       /\ priv' = [NoPriv EXCEPT !.step = "toJwk", !.bytes = bytes,
                                 !.jwk = privateKeyUint8ArrayToJwk(bytes)]
       /\ Start("private")

\* the JWK just produced, converted back (demo)
PrivateFromJwk ==
  /\ script = "private" /\ priv.step = "toJwk" /\ priv.jwk.ok
  /\ priv' = [priv EXCEPT !.step = "roundtrip",
                          !.restored = privateKeyJwkToUint8Array(priv.jwk.jwk)]
  /\ UNCHANGED <<script, codec, pub, tok, selftest>>

\* a caller's JWK converted
PrivateFromAnyJwk ==
  /\ script = "idle"
  /\ \E d \in DStrings :
       /\ priv' = [NoPriv EXCEPT !.step = "fromJwk", !.jwk = JwkOk(<<>>, <<>>, d),
                                 !.restored = privateKeyJwkToUint8Array(Jwk(<<>>, <<>>, d))]
       /\ Start("private")

-----------------------------------------------------------------------------
(* Public key calls *)

PublicToJwk ==
  /\ script = "idle"
  /\ \E bytes \in PublicKeyInputs :
       /\ pub' = [NoPub EXCEPT !.step = "toJwk", !.bytes = bytes,
                               !.jwk = publicKeyUint8ArrayToJwk(bytes)]
       /\ Start("public")

\* the JWK just produced, converted back by either implementation (demo)
PublicFromJwk ==
  /\ script = "public" /\ pub.step = "toJwk" /\ pub.jwk.ok
  /\ \E impl \in Impls, compressed \in BOOLEAN :
       pub' = [pub EXCEPT !.step = "roundtrip", !.impl = impl,
                          !.compressed = compressed,
                          !.restored = publicKeyJwkToUint8Array(impl, pub.jwk.jwk, compressed)]
  /\ UNCHANGED <<script, codec, priv, tok, selftest>>

\* a caller's JWK converted by either implementation
PublicFromAnyJwk ==
  /\ script = "idle"
  /\ \E impl \in Impls, compressed \in BOOLEAN, x \in CoordStrings, y \in CoordStrings :
       /\ pub' = [NoPub EXCEPT !.step = "fromJwk", !.jwk = JwkOk(x, y, <<>>),
                               !.impl = impl, !.compressed = compressed,
                               !.restored = publicKeyJwkToUint8Array(impl, Jwk(x, y, <<>>), compressed)]
       /\ Start("public")

-----------------------------------------------------------------------------
(* JWT calls *)

\* the public JWK of the key pair of a "d" parameter (the pubJwk constant of
\* test.ts beside jwk.d); empty when d is no valid private key
PubJwkOf(d) ==
  LET made == privateKeyUint8ArrayToJwk(Base64toUint8Array(d).val)
  IN  IF made.ok THEN Jwk(made.jwk.x, made.jwk.y, <<>>) ELSE Jwk(<<>>, <<>>, <<>>)

SignJwt ==
  /\ script = "idle"
  /\ \E variant \in Variants, d \in DStrings, header \in Headers, payload \in Payloads,
        k \in Nonces :
       LET jwt == signJwt(variant, d, header, payload, k)
       IN  /\ jwt.ok \/ jwt.err # "none"
           /\ tok' = [NoTok EXCEPT !.step = "signed", !.variant = variant, !.d = d,
                                   !.header = header, !.payload = payload, !.jwt = jwt,
                                   !.presented = jwt.val, !.pubJwk = PubJwkOf(d)]
           /\ Start("jwt")

FlipBit(byte, i) ==
  IF (byte \div Pow2(i)) % 2 = 1 THEN byte - Pow2(i) ELSE byte + Pow2(i)

\* one bit of the signature flipped
TamperSignature ==
  /\ script = "jwt" /\ tok.step = "signed" /\ tok.jwt.ok
  /\ LET parts == Split(tok.jwt.val, 46)
         sig == Base64toUint8Array(parts[3]).val
     IN  \E j \in 1..Len(sig), i \in 0..7 :
           tok' = [tok EXCEPT !.step = "tampered", !.tamper = "signature",
                     !.presented = parts[1] \o <<46>> \o parts[2] \o <<46>> \o
                       uint8ArrayToBase64Url([sig EXCEPT ![j] = FlipBit(sig[j], i)])]
  /\ UNCHANGED <<script, codec, priv, pub, selftest>>

\* one character of the payload segment changed (to 'A', or to 'B' where it is 'A')
TamperPayload ==
  /\ script = "jwt" /\ tok.step = "signed" /\ tok.jwt.ok
  /\ LET parts == Split(tok.jwt.val, 46)
     IN  \E j \in 1..Len(parts[2]) :
           tok' = [tok EXCEPT !.step = "tampered", !.tamper = "payload",
                     !.presented = parts[1] \o <<46>> \o
                       [parts[2] EXCEPT ![j] = IF parts[2][j] = 65 THEN 66 ELSE 65]
                       \o <<46>> \o parts[3]]
  /\ UNCHANGED <<script, codec, priv, pub, selftest>>

\* jose's jwtVerify on the token (test.ts 77, 183)
JwtVerify ==
  /\ script = "jwt" /\ tok.step \in {"signed", "tampered"} /\ tok.jwt.ok
  /\ tok' = [tok EXCEPT !.step = "verified",
                        !.verdict = jwtVerify(tok.presented, tok.pubJwk)]
  /\ UNCHANGED <<script, codec, priv, pub, selftest>>

\* verifyJwt of test.ts (jsonwebtoken inside try/catch)
VerifyJwt ==
  /\ script = "jwt" /\ tok.step \in {"signed", "tampered"} /\ tok.jwt.ok
  /\ tok' = [tok EXCEPT !.step = "verified",
                        !.verdict = verifyJwt(tok.presented, tok.pubJwk)]
  /\ UNCHANGED <<script, codec, priv, pub, selftest>>

\* code units on both sides of every branch of toUTF8Array: 'A', 0x7F, 0x80,
\* 0x7FF, 0x800, 0xD7FF, the high surrogate 0xD83D, the low surrogate 0xDE00,
\* 0xE000, 0xFFFF
CodeUnitSamples == {65, 127, 128, 2047, 2048, 55295, 55357, 56832, 57344, 65535}

TextStrings == SeqsUpTo(CodeUnitSamples, MaxUnits)

\* sha256(text) of part_000: the bytes of toUTF8Array (as pushed, and as the
\* Uint8Array holds them) and their digest
Sha256Text ==
  /\ script = "idle"
  /\ \E text \in TextStrings :
       codec' = [NoCodec EXCEPT !.step = "hashed", !.decoder = "toUTF8Array",
                               !.input = text,
                               !.encoded = Utf8From(text, 0),
                               !.decoded = Ok(toUTF8Array(text)),
                               !.bytes = sha256(text)]
  /\ script' = "digest"
  /\ UNCHANGED <<priv, pub, tok, selftest>>

\* part_000 74-79: a random private key, a digest of ones, sign, verify
SelfTest ==
  /\ script = "idle"
  /\ \E key \in ValidPrivateKeys, k \in Nonces :
       LET pubBytes == getPublicKey(key, TRUE).val
           msg == [i \in 1..CURVE.bytes |-> 1]
           sig == p256sign(msg, key, k)
       IN  /\ sig.ok
           /\ selftest' = [step |-> "verified", priv |-> key, pub |-> pubBytes, msg |-> msg,
                           sig |-> toCompactRawBytes(sig),
                           isValid |-> p256verify(toCompactRawBytes(sig), msg, pubBytes)]
           /\ Start("selftest")

-----------------------------------------------------------------------------

Next ==
  \/ Encode
  \/ DecodeEncoded
  \/ DecodeString
  \/ PrivateToJwk
  \/ PrivateFromJwk
  \/ PrivateFromAnyJwk
  \/ PublicToJwk
  \/ PublicFromJwk
  \/ PublicFromAnyJwk
  \/ SignJwt
  \/ TamperSignature
  \/ TamperPayload
  \/ JwtVerify
  \/ VerifyJwt
  \/ SelfTest
  \/ Sha256Text

Spec == Init /\ [][Next]_vars

-----------------------------------------------------------------------------
(* Properties *)

\* C1: a JWT made by signJwt (either copy) from a valid private key verifies
\* against the public key derived from that private key: jwtVerify resolves with
\* the payload and throws nothing; and the sign/verify self-test of part_000
\* prints true.
SignThenVerifySucceeds ==
  /\ (script = "jwt" /\ tok.step = "verified" /\ tok.tamper = "none"
      /\ tok.verdict.by = "jwtVerify")
       => (tok.verdict.threw = "none" /\ tok.verdict.returned = "payload")
  /\ (script = "selftest" /\ selftest.step = "verified") => selftest.isValid

SignThenVerifyWitness ==
  /\ script = "jwt" /\ tok.step = "verified" /\ tok.tamper = "none"
  /\ tok.verdict.by = "jwtVerify" /\ tok.variant = "fromBase64Url"
  /\ Len(tok.payload) > 2
  /\ tok.verdict.returned = "payload"

\* C2: verifying a signed JWT of which one signature bit was flipped or one
\* payload character was changed, and whose signature therefore does not verify,
\* throws nothing and returns the boolean false.
TamperedTokenReportsFalse ==
  (/\ script = "jwt" /\ tok.step = "verified"
   /\ tok.tamper \in {"signature", "payload"}
   /\ Es256Check(tok.presented, tok.pubJwk) = "SignatureInvalid")
    => (tok.verdict.threw = "none" /\ tok.verdict.returned = "false")

\* C3: a valid public point, compressed or uncompressed, converted to a JWK and
\* back in its own form comes back byte for byte, by either implementation of
\* publicKeyJwkToUint8Array; an uncompressed point converted back with
\* compressed = true comes back as the parity prefix followed by its x.
PublicPointRoundTrip ==
  (script = "public" /\ pub.step = "roundtrip" /\ pub.bytes \in ValidPublicKeys)
    => LET L == CURVE.bytes
           uncompressed == Len(pub.bytes) = 2 * L + 1
       IN  /\ (pub.compressed = ~uncompressed) => pub.restored = Ok(pub.bytes)
           /\ (uncompressed /\ pub.compressed)
                => pub.restored =
                     Ok(<<2 + (pub.bytes[2 * L + 1] % 2)>> \o SubSeq(pub.bytes, 2, L + 1))

PublicPointRoundTripWitness ==
  /\ script = "public" /\ pub.step = "roundtrip" /\ pub.impl = "part_000"
  /\ Len(pub.bytes) = 2 * CURVE.bytes + 1 /\ pub.compressed
  /\ pub.restored.ok /\ pub.restored.val[1] = 3 /\ pub.restored.val[2] = 0

\* C4: a valid private scalar converted to a JWK and back comes back byte for byte.
PrivateScalarRoundTrip ==
  (script = "private" /\ priv.step = "roundtrip") => priv.restored = Ok(priv.bytes)

PrivateScalarRoundTripWitness ==
  /\ script = "private" /\ priv.step = "roundtrip"
  /\ priv.bytes = <<0, 62>> /\ priv.restored.ok

\* C5: the hand-written fromBase64Url returns exactly the bytes whose unpadded
\* base64url encoding it is given, whatever their number modulo 3.
Base64UrlRoundTrip ==
  (script = "codec" /\ codec.step = "roundtrip" /\ codec.decoder = "fromBase64Url")
    => codec.decoded = Ok(codec.bytes)

Base64UrlRoundTripWitness ==
  /\ script = "codec" /\ codec.step = "roundtrip" /\ codec.decoder = "fromBase64Url"
  /\ Len(codec.bytes) % 3 = 1 /\ codec.bytes[1] = 251
  /\ codec.decoded.ok

\* C6: publicKeyUint8ArrayToJwk returns no JWK and fails with InvalidKeyLength for
\* an input of a length other than that of a compressed or an uncompressed point,
\* and with InvalidPoint for an input of the uncompressed length whose prefix is
\* not 0x04 or whose coordinates are not a point of the curve.
PublicKeyInputRejected ==
  (script = "public" /\ pub.step \in {"toJwk", "roundtrip"})
    => LET L == CURVE.bytes
           n == Len(pub.bytes)
           x == bytesToNumberBE(SubSeq(pub.bytes, 2, L + 1))
           y == bytesToNumberBE(SubSeq(pub.bytes, L + 2, 2 * L + 1))
       IN  /\ (n # L + 1 /\ n # 2 * L + 1) => pub.jwk = JwkThrow("InvalidKeyLength")
           /\ (n = 2 * L + 1 /\ (pub.bytes[1] # 4 \/ ~AssertValidity(Affine(x, y))))
                => pub.jwk = JwkThrow("InvalidPoint")

PublicKeyInputRejectedWitness ==
  /\ script = "public" /\ pub.step = "toJwk"
  /\ Len(pub.bytes) = 2 * CURVE.bytes
  /\ pub.jwk.err = "InvalidKeyLength"

\* C7: for a scalar of the right length that is 0 or not below the order n,
\* privateKeyUint8ArrayToJwk returns no JWK and both copies of signJwt return no
\* JWT: each fails with InvalidScalar.
ScalarRangeEnforced ==
  /\ (script = "private" /\ priv.step = "toJwk" /\ Len(priv.bytes) = CURVE.bytes
      /\ (bytesToNumberBE(priv.bytes) = 0 \/ bytesToNumberBE(priv.bytes) >= CURVE.n))
       => priv.jwk = JwkThrow("InvalidScalar")
  /\ (script = "jwt" /\ tok.step = "signed")
       => LET key == Decode(tok.variant, tok.d)
          IN  (/\ key.ok /\ Len(key.val) = CURVE.bytes
               /\ (bytesToNumberBE(key.val) = 0 \/ bytesToNumberBE(key.val) >= CURVE.n))
                => tok.jwt = Throw("InvalidScalar")

ScalarRangeEnforcedWitness ==
  /\ script = "jwt" /\ tok.step = "signed" /\ tok.variant = "fromBase64Url"
  /\ Decode(tok.variant, tok.d) = Ok(<<1, 21>>)
  /\ tok.jwt.err = "InvalidScalar"

\* C8: the string signJwt returns holds exactly two '.', and its three segments
\* are non-empty: the base64url of the header JSON, the base64url of the payload
\* JSON, and the base64url of a signature of 2 * CURVE.bytes bytes.
CompactJwtShape ==
  (script = "jwt" /\ tok.step = "signed" /\ tok.jwt.ok)
    => LET jwt == tok.jwt.val
           parts == Split(jwt, 46)
           sig == Base64toUint8Array(parts[3]).val
       IN  /\ Cardinality({i \in 1..Len(jwt) : jwt[i] = 46}) = 2
           /\ Len(parts) = 3
           /\ \A i \in 1..3 : Len(parts[i]) > 0
           /\ parts[1] = base64urlEncode(tok.header)
           /\ parts[2] = base64urlEncode(tok.payload)
           /\ Len(sig) = 2 * CURVE.bytes
           /\ parts[3] = uint8ArrayToBase64Url(sig)

CompactJwtShapeWitness ==
  /\ script = "jwt" /\ tok.step = "signed" /\ tok.jwt.ok
  /\ Base64toUint8Array(Split(tok.jwt.val, 46)[3]).val[1] = 0
  /\ Len(tok.payload) > 2

\* C9: for a JWK whose x and y are the base64url of CURVE.bytes bytes each,
\* publicKeyJwkToUint8Array (either implementation) fails with InvalidPoint when
\* (x, y) is no point of the curve, and otherwise returns 0x04 || x || y, or with
\* compressed = true the prefix (0x02 for an even y, 0x03 for an odd y) and x.
JwkToPointExact ==
  (script = "public" /\ pub.step = "fromJwk")
    => LET x == Base64toUint8Array(pub.jwk.jwk.x).val
           y == Base64toUint8Array(pub.jwk.jwk.y).val
           wellFormed == /\ Len(x) = CURVE.bytes /\ Len(y) = CURVE.bytes
                         /\ pub.jwk.jwk.x = uint8ArrayToBase64Url(x)
                         /\ pub.jwk.jwk.y = uint8ArrayToBase64Url(y)
           xn == bytesToNumberBE(x)
           yn == bytesToNumberBE(y)
           onCurve == /\ xn < CURVE.p /\ yn < CURVE.p
                      /\ (yn * yn) % CURVE.p
                           = (xn * xn * xn + CURVE.a * xn + CURVE.b) % CURVE.p
       IN  wellFormed
             => IF ~onCurve THEN pub.restored = Throw("InvalidPoint")
                ELSE IF pub.compressed
                THEN pub.restored = Ok(<<IF yn % 2 = 0 THEN 2 ELSE 3>> \o x)
                ELSE pub.restored = Ok(<<4>> \o x \o y)

JwkToPointExactWitness ==
  /\ script = "public" /\ pub.step = "fromJwk" /\ pub.impl = "part_000"
  /\ pub.compressed /\ pub.restored.ok
  /\ pub.restored.val = <<3, 0, 0>>

\* C10: each base64url decoder fails with DecodeError, and returns no bytes, for
\* a string whose length is 1 modulo 4 and for a string holding a character that
\* is neither of the base64url alphabet nor '='.
DecoderRejectsInvalidInput ==
  (script = "codec" /\ codec.step = "decoded")
    => LET str == ReplaceUrlChars(codec.input)
       IN  (\/ Len(str) % 4 = 1
            \/ \E i \in 1..Len(str) : ~IsB64Char(str[i]) /\ str[i] # 61)
             => codec.decoded = Throw("DecodeError")

\* the UTF-8 encoding of one code point (RFC 3629)
Utf8OfCodePoint(cp) ==
  IF cp < 128 THEN <<cp>>
  ELSE IF cp < 2048 THEN <<192 + (cp \div 64), 128 + (cp % 64)>>
  ELSE IF cp < 65536
  THEN <<224 + (cp \div 4096), 128 + ((cp \div 64) % 64), 128 + (cp % 64)>>
  ELSE <<240 + (cp \div 262144), 128 + ((cp \div 4096) % 64),
         128 + ((cp \div 64) % 64), 128 + (cp % 64)>>

RECURSIVE Utf8Standard(_, _)
\* the standard UTF-8 of a string of UTF-16 code units from index i (1-based) on,
\* as TextEncoder and Buffer.from(str, "utf8") give it: a high surrogate followed
\* by a low one is one code point, any other surrogate is U+FFFD
Utf8Standard(str, i) ==
  IF i > Len(str) THEN <<>>
  ELSE
    LET c == str[i]
        paired == /\ c >= 55296 /\ c < 56320 /\ i < Len(str)
                  /\ str[i + 1] >= 56320 /\ str[i + 1] < 57344
    IN  IF paired
        THEN Utf8OfCodePoint(65536 + (c - 55296) * 1024 + (str[i + 1] - 56320))
             \o Utf8Standard(str, i + 2)
        ELSE IF c >= 55296 /\ c < 57344
        THEN Utf8OfCodePoint(65533) \o Utf8Standard(str, i + 1)
        ELSE Utf8OfCodePoint(c) \o Utf8Standard(str, i + 1)

\* C11: for every string of UTF-16 code units toUTF8Array returns the standard
\* UTF-8 bytes (1, 2 or 3 bytes for a code unit, 4 for a surrogate pair, each
\* code unit used once), and every value it pushes is in 0..255.
ToUtf8ArrayIsStandardUtf8 ==
  (script = "digest" /\ codec.step = "hashed")
    => /\ codec.decoded = Ok(Utf8Standard(codec.input, 1))
       /\ \A i \in 1..Len(codec.encoded) : codec.encoded[i] \in 0..255

\* C12: the two implementations of publicKeyJwkToUint8Array agree on every JWK
\* and both values of compressed, coordinates of fewer or more than CURVE.bytes
\* bytes included: both fail, or both return the same bytes.
ImplementationsAgree ==
  (script = "public" /\ pub.step = "fromJwk")
    => LET other == IF pub.impl = "key.ts" THEN "part_000" ELSE "key.ts"
           theirs == publicKeyJwkToUint8Array(other, pub.jwk.jwk, pub.compressed)
       IN  /\ pub.restored.ok = theirs.ok
           /\ pub.restored.ok => pub.restored.val = theirs.val

====
